---- MODULE Spec2Model ----
(***************************************************************************)
(* TrendRadar: the report orchestration and notification dispatch of       *)
(* trendradar/__main__.py (class NewsAnalyzer).                            *)
(*                                                                         *)
(* One process invocation runs one crawl cycle (main -> NewsAnalyzer.run). *)
(* The push manager (is_in_time_range, has_pushed_today, record_push) and  *)
(* the notification dispatcher (dispatch_all) live in trendradar.context,  *)
(* which is outside the sources at hand; they are modelled from the        *)
(* specification's sections 3, 4.3 and 4.4.                                *)
(*                                                                         *)
(* Report type names (the source uses Chinese literals):                   *)
(*   "realtime_incremental" = shi-shi zeng-liang   (line 76)               *)
(*   "realtime_current"     = shi-shi dang-qian bang-dan (line 85)         *)
(*   "daily_summary"        = dang-ri hui-zong     (lines 77, 95)          *)
(*   "current_summary"      = dang-qian bang-dan hui-zong (line 86)        *)
(***************************************************************************)
EXTENDS Naturals, Sequences, FiniteSets

VARIABLES
    cfg,          \* the loaded configuration (ctx.config), fixed for a run
    today,        \* the calendar date of the site-local clock
    pushState,    \* durable PushWindowState: [date, types]
    pc,           \* pc[p]: where invocation p stands in run()
    loc,          \* loc[p]: arguments/locals of the pending notification call
    obs,          \* obs[p]: what invocation p has done in its cycle so far
    gate_pc,      \* content gate harness: "input" or "done"
    gate_mode,    \* content gate harness: self.report_mode
    gate_stats,   \* content gate harness: stats argument
    gate_new,     \* content gate harness: new_titles argument
    gate_result,  \* content gate harness: value returned
    fn_call,      \* function harness: [name, args] of the call being made
    fn_ret        \* function harness: what that call returned

vars == <<cfg, today, pushState, pc, loc, obs,
          gate_pc, gate_mode, gate_stats, gate_new, gate_result,
          fn_call, fn_ret>>
mainVars == <<cfg, today, pushState, pc, loc, obs>>
gateVars == <<gate_pc, gate_mode, gate_stats, gate_new, gate_result>>
fnVars == <<fn_call, fn_ret>>

----------------------------------------------------------------------------
(* Bounds of the model *)

MaxDay == 2        \* calendar dates are 0..MaxDay
MaxTime == 3       \* times of day are 0..MaxTime
MaxGroups == 2     \* stats has at most MaxGroups keyword groups
MaxCount == 1      \* a stat's count is 0..MaxCount
MaxTitles == 1     \* a source has at most MaxTitles new titles
MaxSymbols == 2    \* a symbols list has at most MaxSymbols entries
MaxInstances == 2  \* Nitter instances tried (NITTER_INSTANCES lists seven)
MaxEntries == 2    \* an RSS feed has at most MaxEntries entries
MaxLimit == 2      \* limit of fetch_user_tweets is 1..MaxLimit

Procs == {"p1", "p2"}            \* process invocations (each runs one cycle)
Sources == {"s1"}                \* monitored source ids
Channels == {"feishu", "email"}  \* notification channels of the dispatcher
TimeOfDay == 0..MaxTime
NoDate == MaxDay + 5             \* "no push was ever recorded"

----------------------------------------------------------------------------
(* Mode strategies *)

MODE_STRATEGIES_DailyRealtime ==
    [incremental |->
        [realtime_report_type |-> "realtime_incremental",
         summary_report_type |-> "daily_summary",
         should_send_realtime |-> TRUE,
         should_generate_summary |-> TRUE,
         summary_mode |-> "daily"],
     current |->
        [realtime_report_type |-> "realtime_current",
         summary_report_type |-> "current_summary",
         should_send_realtime |-> TRUE,
         should_generate_summary |-> TRUE,
         summary_mode |-> "current"],
     daily |->
        [realtime_report_type |-> "realtime_current",
         summary_report_type |-> "daily_summary",
         should_send_realtime |-> TRUE,
         should_generate_summary |-> TRUE,
         summary_mode |-> "daily"]]

MODE_STRATEGIES ==
    [incremental |->
        [realtime_report_type |-> "realtime_incremental",
         summary_report_type |-> "daily_summary",
         should_send_realtime |-> TRUE,
         should_generate_summary |-> TRUE,
         summary_mode |-> "daily"],
     current |->
        [realtime_report_type |-> "realtime_current",
         summary_report_type |-> "current_summary",
         should_send_realtime |-> TRUE,
         should_generate_summary |-> TRUE,
         summary_mode |-> "current"],
     daily |->
        [realtime_report_type |-> "",
         summary_report_type |-> "daily_summary",
         should_send_realtime |-> FALSE,
         should_generate_summary |-> TRUE,
         summary_mode |-> "daily"]]

\* REPORT_MODE values a configuration can hold; "weekly" stands for any
\* name that is not a key of MODE_STRATEGIES.
ReportModes == {"incremental", "current", "daily", "weekly"}
RecognizedModes == {"incremental", "current", "daily"}

\* MODE_STRATEGIES.get(self.report_mode, MODE_STRATEGIES["daily"])
GetModeStrategy(report_mode) ==
    IF report_mode \in DOMAIN MODE_STRATEGIES
    THEN MODE_STRATEGIES[report_mode]
    ELSE MODE_STRATEGIES["daily"]

----------------------------------------------------------------------------
(* Content validity gate: _has_valid_content *)

\* stats: a list of dicts, each with a "count"
StatsInputs ==
    UNION {[1..n -> [count : 0..MaxCount]] : n \in 0..MaxGroups}

\* titles of one source: a list of at most MaxTitles titles
TitleLists == UNION {[1..n -> {"t"}] : n \in 0..MaxTitles}

\* new_titles: Optional[Dict]: None, or a dict source id -> titles
NoneTitles == [none |-> TRUE, map |-> <<>>]
NewTitlesInputs ==
    {NoneTitles} \cup
    {[none |-> FALSE, map |-> m] :
        m \in UNION {[S -> TitleLists] : S \in SUBSET Sources}}

\* The classifier's and the history's results drawn in a cycle: the gate reads
\* only whether some count is positive, so one keyword group covers its cases.
CycleStats == {s \in StatsInputs : Len(s) <= 1}

\* any(stat["count"] > 0 for stat in stats)
HasMatchedNews(stats) == \E i \in 1..Len(stats) : stats[i].count > 0

\* bool(new_titles and any(len(titles) > 0 for titles in new_titles.values()))
\* (None and the empty dict are falsy)
HasNewTitles(new_titles) ==
    /\ ~new_titles.none
    /\ DOMAIN new_titles.map # {}
    /\ \E s \in DOMAIN new_titles.map : Len(new_titles.map[s]) > 0

\* A faulty gate: the incremental rule takes either signal.
HasValidContentIncOr(report_mode, stats, new_titles) ==
    IF report_mode = "incremental"
    THEN HasNewTitles(new_titles) \/ HasMatchedNews(stats)
    ELSE IF report_mode = "current"
    THEN HasMatchedNews(stats)
    ELSE HasMatchedNews(stats) \/ HasNewTitles(new_titles)

\* A faulty gate: the current rule also takes new titles.
HasValidContentCurNew(report_mode, stats, new_titles) ==
    IF report_mode = "incremental"
    THEN HasNewTitles(new_titles) /\ HasMatchedNews(stats)
    ELSE IF report_mode = "current"
    THEN HasMatchedNews(stats) \/ HasNewTitles(new_titles)
    ELSE HasMatchedNews(stats) \/ HasNewTitles(new_titles)

\* A faulty gate: the daily rule ignores new titles.
HasValidContentDailyMatched(report_mode, stats, new_titles) ==
    IF report_mode = "incremental"
    THEN HasNewTitles(new_titles) /\ HasMatchedNews(stats)
    ELSE IF report_mode = "current"
    THEN HasMatchedNews(stats)
    ELSE HasMatchedNews(stats)

HasValidContent(report_mode, stats, new_titles) ==
    IF report_mode = "incremental"
    THEN HasNewTitles(new_titles) /\ HasMatchedNews(stats)
    ELSE IF report_mode = "current"
    THEN HasMatchedNews(stats)
    ELSE HasMatchedNews(stats) \/ HasNewTitles(new_titles)

----------------------------------------------------------------------------
(* Push manager (trendradar.context, modelled from the specification 4.3) *)

\* A faulty range test: the bounds are exclusive.
IsInTimeRangeExclusive(start, end, now) ==
    IF start <= end
    THEN start < now /\ now < end
    ELSE now > start \/ now < end

\* isInTimeRange(start, end, now): inclusive bounds; start > end wraps midnight
IsInTimeRange(start, end, now) ==
    IF start <= end
    THEN start <= now /\ now <= end
    ELSE now >= start \/ now <= end

\* A faulty lookup: a push recorded on any date counts for today.
HasPushedTodayEver(state, date) == state.date # NoDate

\* hasPushedToday(): a push is recorded for the current calendar date
HasPushedToday(state, date) == state.date = date

\* recordPush(reportType): adds to today's set; a new date resets the state
RecordPush(state, date, report_type) ==
    IF state.date = date
    THEN [state EXCEPT !.types = @ \cup {report_type}]
    ELSE [date |-> date, types |-> {report_type}]

NoPush == [date |-> NoDate, types |-> {}]

\* dispatch_all's DispatchOutcome: channel -> bool, one entry per channel the
\* dispatcher attempted (specification 4.4); the sends are external.
Outcomes == UNION {[S -> BOOLEAN] : S \in SUBSET Channels}

\* dispatchAll (specification 4.4): the channels the dispatcher knows, in the
\* order it attempts them, and what one channel's send can do
DispatchOrder == <<"feishu", "telegram", "email">>
DispatchChannels == {DispatchOrder[i] : i \in DOMAIN DispatchOrder}
SendResults == {"ok", "returns_false", "raises"}
DispatchInputs ==
    UNION {{[configured |-> S, sends |-> f] : f \in [S -> SendResults]} :
              S \in SUBSET DispatchChannels}

\* the outcome map with the entry of channel ch added
WithEntry(outcome, ch, ok) ==
    [c \in DOMAIN outcome \cup {ch} |-> IF c = ch THEN ok ELSE outcome[c]]

\* A faulty dispatcher: a send that raises aborts the whole call.
RECURSIVE DispatchFromAborting(_, _, _, _)
DispatchFromAborting(i, configured, sends, outcome) ==
    IF i > Len(DispatchOrder)
    THEN [outcome |-> outcome, raised |-> FALSE]
    ELSE LET ch == DispatchOrder[i]
         IN  IF ch \notin configured
             THEN DispatchFromAborting(i + 1, configured, sends, outcome)
             ELSE IF sends[ch] = "raises"
             THEN [outcome |-> outcome, raised |-> TRUE]
             ELSE DispatchFromAborting(i + 1, configured, sends,
                                       WithEntry(outcome, ch, sends[ch] = "ok"))

\* each configured channel is attempted in turn; a send that fails or raises
\* is caught locally and recorded as false
RECURSIVE DispatchFrom(_, _, _, _)
DispatchFrom(i, configured, sends, outcome) ==
    IF i > Len(DispatchOrder)
    THEN [outcome |-> outcome, raised |-> FALSE]
    ELSE LET ch == DispatchOrder[i]
         IN  IF ch \notin configured
             THEN DispatchFrom(i + 1, configured, sends, outcome)
             ELSE DispatchFrom(i + 1, configured, sends,
                               WithEntry(outcome, ch, sends[ch] = "ok"))

DispatchAll(configured, sends) == DispatchFrom(1, configured, sends, <<>>)

----------------------------------------------------------------------------
(* Configuration *)

\* TIME_RANGE START/END pairs: one plain window, one that wraps midnight
PushWindows == {<<1, MaxTime - 1>>, <<MaxTime, 0>>}

\* notification_configured is the value of _has_notification_configured()
Configs ==
    [REPORT_MODE : ReportModes,
     ENABLE_CRAWLER : BOOLEAN,
     ENABLE_NOTIFICATION : BOOLEAN,
     notification_configured : BOOLEAN,
     PW_ENABLED : BOOLEAN,
     ONCE_PER_DAY : BOOLEAN,
     TIME_RANGE : PushWindows]

\* the credential fields _has_notification_configured reads; a value is
\* the empty string or a non-empty one
CredentialFields ==
    {"FEISHU_WEBHOOK_URL", "DINGTALK_WEBHOOK_URL", "WEWORK_WEBHOOK_URL",
     "TELEGRAM_BOT_TOKEN", "TELEGRAM_CHAT_ID",
     "EMAIL_FROM", "EMAIL_PASSWORD", "EMAIL_TO",
     "NTFY_SERVER_URL", "NTFY_TOPIC", "BARK_URL", "SLACK_WEBHOOK_URL"}
CredentialValues == {"", "x"}
CredentialConfigs == [CredentialFields -> CredentialValues]

\* Python truth value of a string, and the value of `a and b`
Truthy(s) == s # ""
PyAnd(a, b) == IF Truthy(a) THEN b ELSE a

\* A faulty check: the Telegram bot token alone counts as a channel.
HasNotificationConfiguredTokenOnly(c) ==
    LET items == <<c["FEISHU_WEBHOOK_URL"],
                   c["DINGTALK_WEBHOOK_URL"],
                   c["WEWORK_WEBHOOK_URL"],
                   c["TELEGRAM_BOT_TOKEN"],
                   PyAnd(PyAnd(c["EMAIL_FROM"], c["EMAIL_PASSWORD"]),
                         c["EMAIL_TO"]),
                   PyAnd(c["NTFY_SERVER_URL"], c["NTFY_TOPIC"]),
                   c["BARK_URL"],
                   c["SLACK_WEBHOOK_URL"]>>
    IN  \E i \in DOMAIN items : Truthy(items[i])

\* lines 193-211: any([...]) over the eight channel expressions
HasNotificationConfigured(c) ==
    LET items == <<c["FEISHU_WEBHOOK_URL"],
                   c["DINGTALK_WEBHOOK_URL"],
                   c["WEWORK_WEBHOOK_URL"],
                   PyAnd(c["TELEGRAM_BOT_TOKEN"], c["TELEGRAM_CHAT_ID"]),
                   PyAnd(PyAnd(c["EMAIL_FROM"], c["EMAIL_PASSWORD"]),
                         c["EMAIL_TO"]),
                   PyAnd(c["NTFY_SERVER_URL"], c["NTFY_TOPIC"]),
                   c["BARK_URL"],
                   c["SLACK_WEBHOOK_URL"]>>
    IN  \E i \in DOMAIN items : Truthy(items[i])

----------------------------------------------------------------------------
(* _send_notification_if_needed *)

\* any(results.values())
AnySuccess(results) == \E ch \in DOMAIN results : results[ch]

\* A faulty throttle: the once-per-day check is left out.
PushWindowVerdictNoOnce(c, in_range, pushed_today) ==
    IF c.PW_ENABLED /\ ~in_range THEN "outside_window" ELSE "go"

\* A faulty throttle: the window is applied also when it is not enabled.
PushWindowVerdictAlwaysOn(c, in_range, pushed_today) ==
    IF ~in_range
    THEN "outside_window"
    ELSE IF c.ONCE_PER_DAY /\ pushed_today
         THEN "already_pushed"
         ELSE "go"

\* A faulty throttle: the time range only counts together with ONCE_PER_DAY.
PushWindowVerdictOnlyOnce(c, in_range, pushed_today) ==
    IF c.PW_ENABLED /\ c.ONCE_PER_DAY
    THEN IF ~in_range
         THEN "outside_window"
         ELSE IF pushed_today THEN "already_pushed" ELSE "go"
    ELSE "go"

\* lines 371-388: the push window control
PushWindowVerdict(c, in_range, pushed_today) ==
    IF c.PW_ENABLED
    THEN IF ~in_range
         THEN "outside_window"
         ELSE IF c.ONCE_PER_DAY /\ pushed_today
              THEN "already_pushed"
              ELSE "go"
    ELSE "go"

\* A faulty decision: the content gate is left out.
SendDecisionNoGate(c, valid, in_range, pushed_today) ==
    IF c.ENABLE_NOTIFICATION /\ c.notification_configured
    THEN PushWindowVerdict(c, in_range, pushed_today)
    ELSE IF c.ENABLE_NOTIFICATION /\ ~c.notification_configured
    THEN "not_configured"
    ELSE "disabled"

\* lines 362-388 and 428-456: which way the call goes before any dispatch
SendDecision(c, valid, in_range, pushed_today) ==
    IF c.ENABLE_NOTIFICATION /\ c.notification_configured /\ valid
    THEN PushWindowVerdict(c, in_range, pushed_today)
    ELSE IF c.ENABLE_NOTIFICATION /\ ~c.notification_configured
    THEN "not_configured"
    ELSE IF ~c.ENABLE_NOTIFICATION
    THEN "disabled"
    ELSE "gate_false"

\* A faulty record condition: any dispatch counts, also one where all failed.
ShouldRecordPushAlways(c, results) == c.PW_ENABLED /\ c.ONCE_PER_DAY

\* A faulty record condition: every channel has to succeed.
ShouldRecordPushAllOk(c, results) ==
    c.PW_ENABLED /\ c.ONCE_PER_DAY /\ \A ch \in DOMAIN results : results[ch]

\* lines 418-422
ShouldRecordPush(c, results) ==
    c.PW_ENABLED /\ c.ONCE_PER_DAY /\ AnySuccess(results)

\* A faulty summary step: the summary is always sent as a notification.
SummarySendsNotificationAlways(strategy) == TRUE

\* lines 949-956: _generate_summary_report (with notification) is taken only
\* when the strategy has no realtime push; else _generate_summary_html
SummarySendsNotification(strategy) == ~strategy.should_send_realtime

\* lines 887 and 921: the mode handed to _run_analysis_pipeline, and with it
\* to count_frequency and generate_html, is self.report_mode as configured
PipelineMode(report_mode) == report_mode

\* "shi-shi" in report_type (line 438): the realtime report types
IsRealtimeType(report_type) ==
    report_type \in {"realtime_incremental", "realtime_current"}

\* lines 428-454: the message printed when the call does not pass line 365
SkipMessage(c, path, report_type, has_new) ==
    IF path = "not_configured" THEN "warn_no_channel_configured"
    ELSE IF path = "disabled" THEN "skip_notification_disabled"
    ELSE IF IsRealtimeType(report_type)
    THEN IF c.REPORT_MODE = "incremental"
         THEN IF ~has_new THEN "skip_realtime_no_new"
              ELSE "skip_realtime_new_unmatched"
         ELSE "skip_realtime_no_match"
    ELSE "skip_summary_no_valid_content"

\* A faulty log: a throttle skip prints the message of a false content gate.
DecisionLogSameSkip(c, path, report_type, has_new) ==
    IF path = "go"
    THEN IF c.PW_ENABLED /\ c.ONCE_PER_DAY THEN {"first_push_today"} ELSE {}
    ELSE {SkipMessage(c, "gate_false", report_type, has_new)}

\* lines 376-388 and 428-454: what the call prints before any dispatch
DecisionLog(c, path, report_type, has_new) ==
    IF path = "outside_window" THEN {"skip_outside_window"}
    ELSE IF path = "already_pushed" THEN {"skip_already_pushed_today"}
    ELSE IF path = "go"
    THEN IF c.PW_ENABLED /\ c.ONCE_PER_DAY THEN {"first_push_today"} ELSE {}
    ELSE {SkipMessage(c, path, report_type, has_new)}

\* lines 365-384: the push manager methods the call consults
PushManagerCalls(c, valid, in_range) ==
    IF c.ENABLE_NOTIFICATION /\ c.notification_configured /\ valid
       /\ c.PW_ENABLED
    THEN IF in_range /\ c.ONCE_PER_DAY
         THEN {"is_in_time_range", "has_pushed_today"}
         ELSE {"is_in_time_range"}
    ELSE {}

\* A faulty return: an empty outcome counts as a sent notification.
AfterDispatchPathAlwaysSent(results) == "returned_true"

\* lines 413-426: what the call returns once dispatch_all has returned
AfterDispatchPath(results) ==
    IF results = <<>> THEN "no_channel" ELSE "returned_true"

\* line 414: the message printed for an empty outcome
AfterDispatchLog(results) ==
    IF results = <<>> THEN {"skip_no_channel_configured"} ELSE {}

\* the value _send_notification_if_needed returns on each way out
ReturnValue(path) == path = "returned_true"

\* A faulty read-back: the cycle goes on without the history.
ReadbackVerdictLenient(report_mode, loaded) == "continue"

\* lines 867-916: current mode raises when the day's history cannot be read
\* back; the other modes do not read it here
ReadbackVerdict(report_mode, loaded) ==
    IF report_mode = "current" /\ ~loaded THEN "raise" ELSE "continue"

\* lines 893, 909, 927, 940: the crawl's failed_ids go to the per-cycle
\* pipeline and to the realtime notification
RealtimeFailedIds(failed_ids) == failed_ids

\* lines 475-485 and 495: the summary pipeline gets no failed_ids and the
\* summary notification gets failed_ids=[]
SummaryFailedIds(failed_ids) == {}

\* lines 552-554: _initialize_and_check_config prints the configured mode
\* and the resolved strategy's description; _get_mode_strategy (189-191)
\* prints nothing
ModeLog(report_mode) == {"report_mode", "run_mode_description"}

\* lines 537-554: what _initialize_and_check_config prints; with the crawler
\* disabled it prints the exit message and returns to run() (line 542)
InitCheckLog(c) ==
    IF ~c.ENABLE_CRAWLER
    THEN {"crawler_disabled_exit"}
    ELSE ModeLog(c.REPORT_MODE) \cup
         {IF ~c.ENABLE_NOTIFICATION THEN "notification_disabled_crawl_only"
          ELSE IF ~c.notification_configured THEN "no_channel_crawl_only"
          ELSE "notification_enabled"}

\* lines 979-1000: run() goes on to _crawl_data, _crawl_extended_data and
\* _execute_mode_strategy whatever _initialize_and_check_config printed
RunCrawls(c) == TRUE

\* A faulty realtime step: every mode classifies this cycle's results.
RealtimeDataSetCycle(report_mode) == "cycle"

\* lines 867-929: the data the realtime pipeline classifies and whose stats
\* go to the realtime notification: the day's history re-read through
\* _load_analysis_data in current mode, else the results of this cycle
RealtimeDataSet(report_mode) ==
    IF report_mode = "current" THEN "history" ELSE "cycle"

\* A faulty summary step: a history that cannot be loaded is fatal.
SummaryLoadVerdictRaise(loaded) ==
    IF loaded THEN "continue" ELSE "raise"

\* lines 465-468 and 508-511: `if not analysis_data: return None`
SummaryLoadVerdict(loaded) ==
    IF loaded THEN "continue" ELSE "return_none"

\* lines 250-252 and 270-272: what _load_analysis_data prints when it
\* returns None
LoadLog(loaded) == IF loaded THEN {} ELSE {"history_not_loaded"}

\* lines 1010-1023: how main() ends when NewsAnalyzer() raises
ConfigErrors == {"FileNotFoundError", "Exception"}
MainExitStatus(err) == IF err = "FileNotFoundError" THEN 0 ELSE 1
MainErrorLog(err) ==
    IF err = "FileNotFoundError"
    THEN {"config_file_error"}
    ELSE {"program_error"}

----------------------------------------------------------------------------
(* Process state *)

NoCall == [report_type |-> "", mode |-> "", failed_ids |-> {}, ret |-> "idle"]

IdleObs ==
    [pipeline_mode |-> "none",  \* mode given to the per-cycle pipeline
     calls |-> <<>>,            \* _send_notification_if_needed invocations
     dispatches |-> <<>>,       \* dispatch_all invocations
     records |-> <<>>,          \* record_push invocations
     results |-> <<>>,          \* outcome of the last dispatch_all
     path |-> "none",           \* how the last notification call went
     summary_loaded |-> FALSE,  \* the summary step loaded the day's history
     summary_valid |-> FALSE,   \* the gate's value on the summary's data
     push_at_start |-> NoPush,  \* pushState when the cycle began
     log |-> {},                \* messages printed in the cycle
     consulted |-> {},          \* push manager methods consulted
     failed_ids |-> {},         \* failed_ids returned by the crawl
     readback_ok |-> TRUE,      \* current mode: the history was read back
     crawled |-> FALSE,         \* _crawl_data has run
     realtime_data |-> "none",  \* data set the realtime pipeline classified
     config_error |-> "none",   \* what NewsAnalyzer() raised
     exit_status |-> 0]         \* the process's exit status once it ended

\* Entry of _send_notification_if_needed up to the push window control
\* (lines 362-388, 428-456) for invocation p, whose observations so far are o.
NotifyStep(p, o, report_type, mode, valid, has_new, failed_ids, data, now, ret) ==
    LET in_range == IsInTimeRange(cfg.TIME_RANGE[1], cfg.TIME_RANGE[2], now)
        path == SendDecision(cfg, valid, in_range,
                             HasPushedToday(pushState, today))
        o2 == [o EXCEPT
                 !.calls = Append(@, [report_type |-> report_type,
                                       mode |-> mode, valid |-> valid,
                                       in_range |-> in_range,
                                       data |-> data]),
                 !.path = path,
                 !.log = @ \cup DecisionLog(cfg, path, report_type, has_new),
                 !.consulted = @ \cup PushManagerCalls(cfg, valid, in_range)]
    IN  /\ obs' = [obs EXCEPT ![p] = o2]
        /\ IF path = "go"
           THEN /\ pc' = [pc EXCEPT ![p] = "dispatch"]
                /\ loc' = [loc EXCEPT ![p] = [report_type |-> report_type,
                                              mode |-> mode,
                                              failed_ids |-> failed_ids,
                                              ret |-> ret]]
           ELSE /\ pc' = [pc EXCEPT ![p] = ret]
                /\ loc' = loc

----------------------------------------------------------------------------
(* Actions *)

\* main() constructs NewsAnalyzer and run() crawls and saves (lines 976-1000);
\* invocations are serialized: one process per scheduled run
StartCycle(p) ==
    /\ \A q \in Procs : pc[q] = "idle"
    /\ pc' = [pc EXCEPT ![p] = "run"]
    /\ \E failed_ids \in SUBSET Sources :
        obs' = [obs EXCEPT ![p] = [IdleObs EXCEPT
                                     !.push_at_start = pushState,
                                     !.log = InitCheckLog(cfg),
                                     !.crawled = RunCrawls(cfg),
                                     !.failed_ids = failed_ids]]
    /\ UNCHANGED <<cfg, today, pushState, loc>>
    /\ UNCHANGED gateVars
    /\ UNCHANGED fnVars

\* the same, for invocations that are not serialized
StartCycleConc(p) ==
    /\ pc[p] = "idle"
    /\ pc' = [pc EXCEPT ![p] = "run"]
    /\ \E failed_ids \in SUBSET Sources :
        obs' = [obs EXCEPT ![p] = [IdleObs EXCEPT
                                     !.push_at_start = pushState,
                                     !.log = InitCheckLog(cfg),
                                     !.crawled = RunCrawls(cfg),
                                     !.failed_ids = failed_ids]]
    /\ UNCHANGED <<cfg, today, pushState, loc>>
    /\ UNCHANGED gateVars
    /\ UNCHANGED fnVars

\* _execute_mode_strategy lines 857-944: the per-cycle analysis and the
\* realtime notification up to its push window control
Realtime(p) ==
    /\ pc[p] = "run"
    /\ \E stats \in CycleStats, new_titles \in NewTitlesInputs,
          loaded \in BOOLEAN, now \in TimeOfDay :
        LET strategy == GetModeStrategy(cfg.REPORT_MODE)
            read_ok == cfg.REPORT_MODE = "current" => loaded
            data == RealtimeDataSet(cfg.REPORT_MODE)
            o == [obs[p] EXCEPT !.pipeline_mode = PipelineMode(cfg.REPORT_MODE),
                                !.readback_ok = read_ok,
                                !.realtime_data = data]
        IN  IF ReadbackVerdict(cfg.REPORT_MODE, loaded) = "raise"
            THEN \* lines 914-916: raise RuntimeError; run() prints and
                 \* raises again (1002-1004), and so does main() (1021-1023)
                 /\ pc' = [pc EXCEPT ![p] = "failed"]
                 /\ obs' = [obs EXCEPT
                              ![p].path = "raised",
                              ![p].readback_ok = read_ok,
                              ![p].log = @ \cup LoadLog(loaded) \cup
                                             {"consistency_error",
                                              "run_error", "program_error"},
                              ![p].exit_status = 1]
                 /\ loc' = loc
            ELSE IF strategy.should_send_realtime
            THEN NotifyStep(p, o, strategy.realtime_report_type,
                            cfg.REPORT_MODE,
                            HasValidContent(cfg.REPORT_MODE, stats, new_titles),
                            HasNewTitles(new_titles),
                            RealtimeFailedIds(obs[p].failed_ids),
                            data, now, "summary")
            ELSE /\ pc' = [pc EXCEPT ![p] = "summary"]
                 /\ obs' = [obs EXCEPT ![p] = o]
                 /\ loc' = loc
    /\ UNCHANGED <<cfg, today, pushState>>
    /\ UNCHANGED gateVars
    /\ UNCHANGED fnVars

\* lines 402-411: dispatch_all
Dispatch(p) ==
    /\ pc[p] = "dispatch"
    /\ \E results \in Outcomes :
        obs' = [obs EXCEPT
                  ![p].dispatches =
                      Append(@, [report_type |-> loc[p].report_type,
                                 mode |-> loc[p].mode,
                                 failed_ids |-> loc[p].failed_ids,
                                 day |-> today]),
                  ![p].results = results]
    /\ pc' = [pc EXCEPT ![p] = "dispatched"]
    /\ UNCHANGED <<cfg, today, pushState, loc>>
    /\ UNCHANGED gateVars
    /\ UNCHANGED fnVars

\* lines 413-426: the outcome is looked at and the push recorded
AfterDispatch(p) ==
    /\ pc[p] = "dispatched"
    /\ LET results == obs[p].results
           rt == loc[p].report_type
           path == AfterDispatchPath(results)
           log == obs[p].log \cup AfterDispatchLog(results)
       IN  IF path = "no_channel"
           THEN /\ obs' = [obs EXCEPT ![p].path = path, ![p].log = log]
                /\ pushState' = pushState
           ELSE IF ShouldRecordPush(cfg, results)
           THEN /\ pushState' = RecordPush(pushState, today, rt)
                /\ obs' = [obs EXCEPT
                             ![p].records =
                                 Append(@, [report_type |-> rt, day |-> today]),
                             ![p].path = path, ![p].log = log]
           ELSE /\ obs' = [obs EXCEPT ![p].path = path, ![p].log = log]
                /\ pushState' = pushState
    /\ pc' = [pc EXCEPT ![p] = loc[p].ret]
    /\ loc' = [loc EXCEPT ![p] = NoCall]
    /\ UNCHANGED <<cfg, today>>
    /\ UNCHANGED gateVars
    /\ UNCHANGED fnVars

\* lines 946-956 with _generate_summary_html (503-533) or
\* _generate_summary_report (458-501) up to the push window control
Summary(p) ==
    /\ pc[p] = "summary"
    /\ \E stats \in CycleStats, new_titles \in NewTitlesInputs,
          loaded \in BOOLEAN, now \in TimeOfDay :
        LET strategy == GetModeStrategy(cfg.REPORT_MODE)
            valid == HasValidContent(cfg.REPORT_MODE, stats, new_titles)
            verdict == SummaryLoadVerdict(loaded)
            o == [obs[p] EXCEPT !.summary_loaded = loaded,
                                !.summary_valid = loaded /\ valid,
                                !.log = @ \cup LoadLog(loaded)]
        IN  IF ~strategy.should_generate_summary
            THEN /\ pc' = [pc EXCEPT ![p] = "done"]
                 /\ UNCHANGED <<obs, loc>>
            ELSE IF verdict = "raise"
            THEN /\ pc' = [pc EXCEPT ![p] = "failed"]
                 /\ obs' = [obs EXCEPT ![p] = [o EXCEPT !.path = "raised",
                                                        !.exit_status = 1]]
                 /\ loc' = loc
            ELSE IF SummarySendsNotification(strategy) /\ verdict = "continue"
            THEN NotifyStep(p, o, strategy.summary_report_type,
                            strategy.summary_mode, valid,
                            HasNewTitles(new_titles),
                            SummaryFailedIds(obs[p].failed_ids),
                            "history", now, "done")
            ELSE /\ pc' = [pc EXCEPT ![p] = "done"]
                 /\ obs' = [obs EXCEPT ![p] = o]
                 /\ loc' = loc
    /\ UNCHANGED <<cfg, today, pushState>>
    /\ UNCHANGED gateVars
    /\ UNCHANGED fnVars

\* run() returns or raises (lines 1002-1007) and the process ends
EndCycle(p) ==
    /\ pc[p] \in {"done", "failed", "exited"}
    /\ pc' = [pc EXCEPT ![p] = "idle"]
    /\ obs' = [obs EXCEPT ![p] = IdleObs]
    /\ loc' = [loc EXCEPT ![p] = NoCall]
    /\ UNCHANGED <<cfg, today, pushState>>
    /\ UNCHANGED gateVars
    /\ UNCHANGED fnVars

\* main() lines 1010-1023 when NewsAnalyzer() raises while loading the
\* configuration (lines 102-106): run() is never called
ConfigFail(p) ==
    /\ \A q \in Procs : pc[q] = "idle"
    /\ \E err \in ConfigErrors :
        obs' = [obs EXCEPT ![p] = [IdleObs EXCEPT
                                     !.push_at_start = pushState,
                                     !.config_error = err,
                                     !.log = MainErrorLog(err),
                                     !.exit_status = MainExitStatus(err)]]
    /\ pc' = [pc EXCEPT ![p] = "exited"]
    /\ UNCHANGED <<cfg, today, pushState, loc>>
    /\ UNCHANGED gateVars
    /\ UNCHANGED fnVars

\* the calendar date rolls over
NextDay ==
    /\ today < MaxDay
    /\ today' = today + 1
    /\ UNCHANGED <<cfg, pushState, pc, loc, obs>>
    /\ UNCHANGED gateVars
    /\ UNCHANGED fnVars

----------------------------------------------------------------------------
(* Content gate harness: _has_valid_content applied to drawn arguments *)

ApplyGate ==
    /\ gate_pc = "input"
    /\ gate_result' = HasValidContent(gate_mode, gate_stats, gate_new)
    /\ gate_pc' = "done"
    /\ UNCHANGED <<gate_mode, gate_stats, gate_new>>
    /\ UNCHANGED mainVars
    /\ UNCHANGED fnVars

NewGateInput ==
    /\ gate_pc = "done"
    /\ gate_mode' \in ReportModes
    /\ gate_stats' \in StatsInputs
    /\ gate_new' \in NewTitlesInputs
    /\ gate_result' = FALSE
    /\ gate_pc' = "input"
    /\ UNCHANGED mainVars
    /\ UNCHANGED fnVars

----------------------------------------------------------------------------
(* Optional enrichments of a report: lines 390-411 *)

\* get_latest_extended_data_from_storage: data, nothing, or an exception
ExtendedOutcomes == {"data", "empty", "raises"}

\* _run_ai_analysis (lines 725-796): disabled, anthropic not installed,
\* ValueError of ClaudeAnalyzer (no API key), another exception, no result,
\* or a result
AiOutcomes ==
    {"disabled", "import_error", "value_error", "exception", "no_result",
     "result"}

\* lines 805-826: report_data['extended_data']
AddExtendedData(ext) == IF ext = "data" THEN "data" ELSE "None"

\* lines 836-851 with 738-796: report_data['ai_analysis']
AddAiAnalysis(ai) == IF ai = "result" THEN "analysis" ELSE "None"

\* A faulty enrichment: an exception of the load or of the AI call escapes.
EnrichmentEscapesUncaught(ext, ai) == ext = "raises" \/ ai = "exception"

\* lines 824-826, 785-796 and 849-851: every exception of the two
\* enrichments is caught where it happens
EnrichmentEscapes(ext, ai) == FALSE

\* lines 390-411: prepare_report, the two enrichments, then dispatch_all
NotifyTail(ext, ai) ==
    IF EnrichmentEscapes(ext, ai)
    THEN [extended_data |-> "unset", ai_analysis |-> "unset",
          dispatch_calls |-> 0, raised |-> TRUE]
    ELSE [extended_data |-> AddExtendedData(ext),
          ai_analysis |-> AddAiAnalysis(ai),
          dispatch_calls |-> 1, raised |-> FALSE]

----------------------------------------------------------------------------
(* Extended data fetchers: trendradar/crawler *)

Range(seq) == {seq[i] : i \in DOMAIN seq}
Min(a, b) == IF a <= b THEN a ELSE b

\* symbols a configuration can list; XRPUSDT stands for any symbol that is
\* not a key of CryptoFetcherCoinGecko.SYMBOL_MAP
CryptoSymbols == {"BTCUSDT", "ETHUSDT", "XRPUSDT"}
SYMBOL_MAP == [BTCUSDT |-> "bitcoin", ETHUSDT |-> "ethereum"]
SymbolLists == UNION {[1..n -> CryptoSymbols] : n \in 0..MaxSymbols}

\* what one Binance request can do: succeed, fail in requests, deliver data
\* that lacks a field or does not parse, or fail otherwise
BinanceOutcomes == {"ok", "request_error", "format_error", "other_error"}
BinanceInputs ==
    UNION {{[symbols |-> syms, outcomes |-> o] :
               o \in [DOMAIN syms -> BinanceOutcomes]} : syms \in SymbolLists}

\* crypto_fetcher.py lines 67-103: one try per symbol, all exceptions caught
RECURSIVE BinanceLoop(_, _, _, _)
BinanceLoop(i, symbols, outcomes, results) ==
    IF i > Len(symbols)
    THEN results
    ELSE BinanceLoop(i + 1, symbols, outcomes,
             [s \in DOMAIN results \cup {symbols[i]} |->
                 IF s = symbols[i]
                 THEN IF outcomes[i] = "ok" THEN "data" ELSE "None"
                 ELSE results[s]])

\* CryptoFetcher.fetch_ticker_24h
BinanceFetchTicker24h(symbols, outcomes) ==
    [value |-> BinanceLoop(1, symbols, outcomes, <<>>), raised |-> FALSE]

\* the CoinGecko request succeeds or fails in requests; the response maps
\* coin ids to data whose "usd" is a number, is missing (KeyError), is not
\* numeric text (ValueError) or is null (TypeError)
CoinRequests == {"ok", "request_error"}
CoinData == {"ok", "no_usd", "bad_usd", "null_usd"}
CoinIds == {SYMBOL_MAP[s] : s \in DOMAIN SYMBOL_MAP}
CoinResponses == UNION {[S -> CoinData] : S \in SUBSET CoinIds}
CoinGeckoInputs ==
    [symbols : SymbolLists, request : CoinRequests, data : CoinResponses]

\* crypto_fetcher_coingecko.py lines 52-123
CoinGeckoFetchTicker24h(symbols, request, data) ==
    LET known == {s \in Range(symbols) : s \in DOMAIN SYMBOL_MAP}
        coin_ids == {SYMBOL_MAP[s] : s \in known}
        \* lines 92-95: the coins of the response that were asked for
        processed == {s \in known : SYMBOL_MAP[s] \in DOMAIN data}
        none_all == [s \in Range(symbols) |-> "None"]
    IN  IF coin_ids = {}
        THEN \* lines 66-67
             [value |-> <<>>, raised |-> FALSE]
        ELSE IF request = "request_error"
        THEN \* lines 113-116
             [value |-> none_all, raised |-> FALSE]
        ELSE IF \E s \in processed : data[SYMBOL_MAP[s]] = "null_usd"
        THEN \* float(None) raises TypeError, which neither line 109 nor
             \* line 113 catches
             [value |-> <<>>, raised |-> TRUE]
        ELSE \* lines 97-111 and 119-121
             [value |-> [s \in Range(symbols) |->
                            IF s \in processed /\ data[SYMBOL_MAP[s]] = "ok"
                            THEN "data" ELSE "None"],
              raised |-> FALSE]

\* what contacting one Nitter instance gives: an error before any entry is
\* read, or a feed whose entries can be processed ("ok") or lack an
\* attribute the loop reads ("bad")
FeedErrors == {"timeout", "request_error", "other_error"}
EntryLists == UNION {[1..n -> {"ok", "bad"}] : n \in 0..MaxEntries}
Feeds ==
    {[status |-> e, entries |-> <<>>] : e \in FeedErrors} \cup
    {[status |-> "ok", entries |-> es] : es \in EntryLists}
TweetInputs ==
    [installed : BOOLEAN, limit : 1..MaxLimit,
     feeds : [1..MaxInstances -> Feeds]]

\* twitter_fetcher.py lines 102-113: entries[:limit] appended one by one
\* until an entry raises
RECURSIVE AppendEntries(_, _, _, _, _)
AppendEntries(k, inst, entries, limit, tweets) ==
    IF k > Min(limit, Len(entries))
    THEN [tweets |-> tweets, raised |-> FALSE]
    ELSE IF entries[k] = "bad"
    THEN [tweets |-> tweets, raised |-> TRUE]
    ELSE AppendEntries(k + 1, inst, entries, limit,
                       Append(tweets, <<inst, k>>))

\* twitter_fetcher.py lines 72-126: the loop over NITTER_INSTANCES; tweets
\* is the one list created at line 62
RECURSIVE InstanceLoop(_, _, _, _, _)
InstanceLoop(i, feeds, limit, tweets, contacted) ==
    IF i > Len(feeds)
    THEN [tweets |-> tweets, contacted |-> contacted]
    ELSE LET feed == feeds[i]
             seen == Append(contacted, i)
         IN  IF feed.status # "ok" \/ feed.entries = <<>>
             THEN InstanceLoop(i + 1, feeds, limit, tweets, seen)
             ELSE LET r == AppendEntries(1, i, feed.entries, limit, tweets)
                  IN  IF r.raised
                      THEN InstanceLoop(i + 1, feeds, limit, r.tweets, seen)
                      ELSE [tweets |-> r.tweets, contacted |-> seen]

\* TwitterFetcher.fetch_user_tweets
FetchUserTweets(installed, limit, feeds) ==
    IF ~installed
    THEN [tweets |-> <<>>, contacted |-> <<>>]
    ELSE InstanceLoop(1, feeds, limit, <<>>, <<>>)

----------------------------------------------------------------------------
(* Function harness: one function applied to drawn arguments, then reset *)

NoFnCall == [name |-> "none", args |-> <<>>]
NoFnRet == [value |-> FALSE]

\* lines 362-369: a notification call with notifications enabled, valid
\* content and an open push window, has_notification being the value of
\* _has_notification_configured()
DecisionWith(has_notification) ==
    SendDecision([REPORT_MODE |-> "daily", ENABLE_NOTIFICATION |-> TRUE,
                  notification_configured |-> has_notification,
                  PW_ENABLED |-> FALSE, ONCE_PER_DAY |-> FALSE,
                  TIME_RANGE |-> <<MaxTime, 0>>],
                 TRUE, TRUE, FALSE)

CallHasNotificationConfigured ==
    /\ fn_call = NoFnCall
    /\ \E c \in CredentialConfigs :
        LET has == HasNotificationConfigured(c)
        IN  /\ fn_call' = [name |-> "has_notification_configured", args |-> c]
            /\ fn_ret' = [value |-> has, decision |-> DecisionWith(has)]
    /\ UNCHANGED mainVars
    /\ UNCHANGED gateVars

CallDispatchAll ==
    /\ fn_call = NoFnCall
    /\ \E in \in DispatchInputs :
        /\ fn_call' = [name |-> "dispatch_all", args |-> in]
        /\ fn_ret' = DispatchAll(in.configured, in.sends)
    /\ UNCHANGED mainVars
    /\ UNCHANGED gateVars

CallIsInTimeRange ==
    /\ fn_call = NoFnCall
    /\ \E start \in TimeOfDay, end \in TimeOfDay, now \in TimeOfDay :
        /\ fn_call' = [name |-> "is_in_time_range",
                       args |-> [start |-> start, end |-> end, now |-> now]]
        /\ fn_ret' = [value |-> IsInTimeRange(start, end, now)]
    /\ UNCHANGED mainVars
    /\ UNCHANGED gateVars

CallNotifyTail ==
    /\ fn_call = NoFnCall
    /\ \E ext \in ExtendedOutcomes, ai \in AiOutcomes :
        /\ fn_call' = [name |-> "notify_tail", args |-> [ext |-> ext, ai |-> ai]]
        /\ fn_ret' = NotifyTail(ext, ai)
    /\ UNCHANGED mainVars
    /\ UNCHANGED gateVars

CallBinanceFetchTicker24h ==
    /\ fn_call = NoFnCall
    /\ \E in \in BinanceInputs :
        /\ fn_call' = [name |-> "binance_fetch_ticker_24h", args |-> in]
        /\ fn_ret' = BinanceFetchTicker24h(in.symbols, in.outcomes)
    /\ UNCHANGED mainVars
    /\ UNCHANGED gateVars

CallCoinGeckoFetchTicker24h ==
    /\ fn_call = NoFnCall
    /\ \E in \in CoinGeckoInputs :
        /\ fn_call' = [name |-> "coingecko_fetch_ticker_24h", args |-> in]
        /\ fn_ret' = CoinGeckoFetchTicker24h(in.symbols, in.request, in.data)
    /\ UNCHANGED mainVars
    /\ UNCHANGED gateVars

CallFetchUserTweets ==
    /\ fn_call = NoFnCall
    /\ \E in \in TweetInputs :
        /\ fn_call' = [name |-> "fetch_user_tweets", args |-> in]
        /\ fn_ret' = FetchUserTweets(in.installed, in.limit, in.feeds)
    /\ UNCHANGED mainVars
    /\ UNCHANGED gateVars

FnReturn ==
    /\ fn_call # NoFnCall
    /\ fn_call' = NoFnCall
    /\ fn_ret' = NoFnRet
    /\ UNCHANGED mainVars
    /\ UNCHANGED gateVars

----------------------------------------------------------------------------
(* Specifications *)

IdleMain ==
    /\ today = 0
    /\ pushState = NoPush
    /\ pc = [p \in Procs |-> "idle"]
    /\ loc = [p \in Procs |-> NoCall]
    /\ obs = [p \in Procs |-> IdleObs]

GateOff ==
    /\ gate_pc = "off"
    /\ gate_mode = "daily"
    /\ gate_stats = <<>>
    /\ gate_new = NoneTitles
    /\ gate_result = FALSE

FnOff ==
    /\ fn_call = NoFnCall
    /\ fn_ret = NoFnRet

\* runs with the crawler enabled; the runs with ENABLE_CRAWLER false are
\* those of SpecCrawlerOff
Init ==
    /\ cfg \in {c \in Configs : c.ENABLE_CRAWLER}
    /\ IdleMain
    /\ GateOff
    /\ FnOff

Next ==
    \/ \E p \in Procs : StartCycle(p)
    \/ \E p \in Procs : ConfigFail(p)
    \/ \E p \in Procs : Realtime(p)
    \/ \E p \in Procs : Dispatch(p)
    \/ \E p \in Procs : AfterDispatch(p)
    \/ \E p \in Procs : Summary(p)
    \/ \E p \in Procs : EndCycle(p)
    \/ NextDay

Spec == Init /\ [][Next]_vars

\* near-simultaneous invocations against the same durable state, all within
\* one calendar date
NextConc ==
    \/ \E p \in Procs : StartCycleConc(p)
    \/ \E p \in Procs : Realtime(p)
    \/ \E p \in Procs : Dispatch(p)
    \/ \E p \in Procs : AfterDispatch(p)
    \/ \E p \in Procs : Summary(p)
    \/ \E p \in Procs : EndCycle(p)

\* the race is about the once-per-day push window: notifications are on
\* and configured, the window is enabled and limits to one push a day
InitConc ==
    /\ cfg \in {c \in Configs : c.ENABLE_CRAWLER /\ c.ENABLE_NOTIFICATION
                   /\ c.notification_configured /\ c.PW_ENABLED
                   /\ c.ONCE_PER_DAY}
    /\ IdleMain
    /\ GateOff
    /\ FnOff

SpecConc == InitConc /\ [][NextConc]_vars

\* the runs of a configuration with ENABLE_CRAWLER false
InitCrawlerOff ==
    /\ cfg \in {c \in Configs : ~c.ENABLE_CRAWLER}
    /\ IdleMain
    /\ GateOff
    /\ FnOff

SpecCrawlerOff == InitCrawlerOff /\ [][Next]_vars

InitGate ==
    /\ cfg \in {c \in Configs : c.REPORT_MODE = "daily" /\ c.ENABLE_CRAWLER
                   /\ ~c.ENABLE_NOTIFICATION
                   /\ ~c.notification_configured /\ ~c.PW_ENABLED
                   /\ ~c.ONCE_PER_DAY /\ c.TIME_RANGE = <<MaxTime, 0>>}
    /\ IdleMain
    /\ gate_pc = "input"
    /\ gate_mode \in ReportModes
    /\ gate_stats \in StatsInputs
    /\ gate_new \in NewTitlesInputs
    /\ gate_result = FALSE
    /\ FnOff

NextGate == ApplyGate \/ NewGateInput

SpecGate == InitGate /\ [][NextGate]_vars

\* the functions of the harness, each applied to every drawn argument
InitFn ==
    /\ cfg \in {c \in Configs : c.REPORT_MODE = "daily" /\ c.ENABLE_CRAWLER
                   /\ ~c.ENABLE_NOTIFICATION
                   /\ ~c.notification_configured /\ ~c.PW_ENABLED
                   /\ ~c.ONCE_PER_DAY /\ c.TIME_RANGE = <<MaxTime, 0>>}
    /\ IdleMain
    /\ GateOff
    /\ FnOff

NextFn ==
    \/ CallHasNotificationConfigured
    \/ CallDispatchAll
    \/ CallIsInTimeRange
    \/ CallNotifyTail
    \/ CallBinanceFetchTicker24h
    \/ CallCoinGeckoFetchTicker24h
    \/ CallFetchUserTweets
    \/ FnReturn

SpecFn == InitFn /\ [][NextFn]_vars

----------------------------------------------------------------------------
(* Properties *)

Strategy == GetModeStrategy(cfg.REPORT_MODE)
OncePerDay == cfg.PW_ENABLED /\ cfg.ONCE_PER_DAY
Dispatched(p) == obs[p].dispatches # <<>>
Succeeded(p) == Dispatched(p) /\ AnySuccess(obs[p].results)

\* C1: record_push is invoked only after dispatch_all returned an outcome in
\* which some channel is true; while no channel of the cycle has succeeded
\* (also when every attempted channel failed) the durable push state is the
\* one the cycle started with, so the same day stays eligible.
C1_RecordOnlyAfterSuccess ==
    \A p \in Procs :
        /\ obs[p].records # <<>> => Succeeded(p)
        /\ (pc[p] # "idle" /\ ~AnySuccess(obs[p].results)) =>
               pushState = obs[p].push_at_start

C1_Witness ==
    \E p \in Procs :
        /\ pc[p] = "done"
        /\ OncePerDay
        /\ Dispatched(p)
        /\ obs[p].results # <<>>
        /\ ~AnySuccess(obs[p].results)
        /\ ~HasPushedToday(pushState, today)

\* C2: within one cycle dispatch_all is invoked at most once, in every mode.
C2_AtMostOneDispatch ==
    \A p \in Procs : Len(obs[p].dispatches) <= 1

C2_Witness ==
    \E p \in Procs :
        /\ pc[p] = "done"
        /\ ~cfg.PW_ENABLED
        /\ Len(obs[p].dispatches) = 1
        /\ obs[p].dispatches[1].report_type = Strategy.realtime_report_type
        /\ obs[p].summary_valid

\* C3: with PUSH_WINDOW.ENABLED and ONCE_PER_DAY, no step of serialized
\* cycles calls dispatch_all while a push is recorded for the current date.
C3_NoDispatchOncePushed ==
    [][\A p \in Procs :
          (OncePerDay /\ HasPushedToday(pushState, today)) =>
              Len(obs'[p].dispatches) <= Len(obs[p].dispatches)]_vars

C3_Witness ==
    \E p \in Procs :
        /\ pc[p] = "done"
        /\ OncePerDay
        /\ obs[p].path = "already_pushed"
        /\ obs[p].calls[Len(obs[p].calls)].valid
        /\ ~Dispatched(p)
        /\ HasPushedToday(obs[p].push_at_start, today)

\* C4: with ONCE_PER_DAY, two invocations never both call dispatch_all with a
\* successful outcome on the same calendar date.
C4_NoDoublePush ==
    \A p, q \in Procs :
        (p # q /\ OncePerDay /\ Succeeded(p) /\ Succeeded(q)) =>
            obs[p].dispatches[1].day # obs[q].dispatches[1].day

\* C5: in incremental mode the gate is true exactly when some source of
\* new_titles has a title and some stat has a positive count.
C5_IncrementalGate ==
    (gate_pc = "done" /\ gate_mode = "incremental") =>
        /\ gate_result <=>
              (/\ \E s \in DOMAIN gate_new.map : Len(gate_new.map[s]) >= 1
               /\ \E i \in DOMAIN gate_stats : gate_stats[i].count > 0)
        /\ (gate_new.none \/ gate_new.map = <<>>) => ~gate_result

C5_Witness ==
    /\ gate_pc = "done"
    /\ gate_mode = "incremental"
    /\ gate_result
    /\ \E s \in DOMAIN gate_new.map : Len(gate_new.map[s]) >= 1

\* C6: in current mode the gate is true exactly when some stat has a positive
\* count, whatever new_titles is.
C6_CurrentGate ==
    (gate_pc = "done" /\ gate_mode = "current") =>
        (gate_result <=> \E i \in DOMAIN gate_stats : gate_stats[i].count > 0)

C6_Witness ==
    /\ gate_pc = "done"
    /\ gate_mode = "current"
    /\ ~gate_result
    /\ \E s \in DOMAIN gate_new.map : Len(gate_new.map[s]) >= 1

\* C7: in daily mode the gate is true exactly when some stat has a positive
\* count or some source of new_titles has a title.
C7_DailyGate ==
    (gate_pc = "done" /\ gate_mode = "daily") =>
        (gate_result <=>
            (\/ \E i \in DOMAIN gate_stats : gate_stats[i].count > 0
             \/ \E s \in DOMAIN gate_new.map : Len(gate_new.map[s]) >= 1))

C7_Witness ==
    /\ gate_pc = "done"
    /\ gate_mode = "daily"
    /\ gate_result
    /\ \A i \in DOMAIN gate_stats : gate_stats[i].count = 0
    /\ \E s \in DOMAIN gate_new.map : Len(gate_new.map[s]) >= 1

\* C8: in every mode, a cycle that generates a summary and made no realtime
\* push sends the summary through gate, throttle and dispatch with the
\* summary report type: with notifications on and configured, the window
\* control off and summary content that passes the gate, a finished cycle
\* has dispatched the summary.
C8_SummaryPushedUnlessRealtime ==
    \A p \in Procs :
        (/\ pc[p] = "done"
         /\ Strategy.should_generate_summary
         /\ ~Dispatched(p)
         /\ obs[p].summary_valid
         /\ cfg.ENABLE_NOTIFICATION
         /\ cfg.notification_configured
         /\ ~cfg.PW_ENABLED) =>
            \E i \in DOMAIN obs[p].calls :
                obs[p].calls[i].report_type = Strategy.summary_report_type

\* C9 as stated: with PUSH_WINDOW.ENABLED, every dispatch_all with a
\* successful channel is followed, before the cycle ends, by record_push of
\* the dispatched report type.
C9_RecordAfterSuccess ==
    \A p \in Procs :
        (pc[p] \in {"summary", "done"} /\ cfg.PW_ENABLED /\ Succeeded(p)) =>
            /\ Len(obs[p].records) = 1
            /\ obs[p].records[1].report_type = obs[p].dispatches[1].report_type

\* C9 amended: the same with PUSH_WINDOW.ONCE_PER_DAY also true.
C9_RecordAfterSuccessOncePerDay ==
    \A p \in Procs :
        (pc[p] \in {"summary", "done"} /\ OncePerDay /\ Succeeded(p)) =>
            /\ Len(obs[p].records) = 1
            /\ obs[p].records[1].report_type = obs[p].dispatches[1].report_type

C9_Witness ==
    \E p \in Procs :
        /\ pc[p] = "done"
        /\ OncePerDay
        /\ cfg.REPORT_MODE = "incremental"
        /\ Succeeded(p)
        /\ \E ch \in DOMAIN obs[p].results : ~obs[p].results[ch]
        /\ obs[p].records[1].report_type = "realtime_incremental"
        /\ HasPushedToday(pushState, today)

\* C10: a run with an unrecognized REPORT_MODE is a daily run: the Daily
\* strategy, the mode given to classification and rendering, and the report
\* type and mode of every notification call are those of REPORT_MODE=daily.
C10_FallbackIsDaily ==
    \A p \in Procs :
        (cfg.REPORT_MODE \notin RecognizedModes /\ pc[p] \in {"summary", "done"}) =>
            /\ Strategy = MODE_STRATEGIES["daily"]
            /\ obs[p].pipeline_mode = PipelineMode("daily")
            /\ \A i \in DOMAIN obs[p].calls :
                  /\ obs[p].calls[i].report_type = "daily_summary"
                  /\ obs[p].calls[i].mode = "daily"

\* C11: whenever the strategy lookup falls back to the Daily strategy for an
\* unrecognized REPORT_MODE, the run logs a warning about the fallback.
C11_FallbackWarned ==
    \A p \in Procs :
        (cfg.REPORT_MODE \notin RecognizedModes /\ pc[p] \notin {"idle", "exited"}) =>
            "mode_fallback_warning" \in obs[p].log

\* C12: in daily mode the realtime step makes no notification call, so no
\* dispatch_all carries a realtime report type; every dispatch of the cycle
\* is the summary one, with report type daily_summary and mode daily.
C12_DailyOnlySummary ==
    \A p \in Procs :
        cfg.REPORT_MODE = "daily" =>
            /\ pc[p] = "summary" => obs[p].calls = <<>>
            /\ \A i \in DOMAIN obs[p].calls :
                  /\ obs[p].calls[i].report_type = "daily_summary"
                  /\ obs[p].calls[i].mode = "daily"
            /\ \A i \in DOMAIN obs[p].dispatches :
                  /\ ~IsRealtimeType(obs[p].dispatches[i].report_type)
                  /\ obs[p].dispatches[i].report_type = "daily_summary"
                  /\ obs[p].dispatches[i].mode = "daily"

C12_Witness ==
    \E p \in Procs :
        /\ cfg.REPORT_MODE = "daily"
        /\ pc[p] = "done"
        /\ Len(obs[p].dispatches) = 1
        /\ obs[p].dispatches[1].report_type = "daily_summary"

Gated == cfg.ENABLE_NOTIFICATION /\ cfg.notification_configured
Called(p) == obs[p].calls # <<>>
Returned(p) == pc[p] \in {"summary", "done"}

\* C13: with PUSH_WINDOW.ENABLED false the push window is bypassed:
\* is_in_time_range and has_pushed_today are never consulted, record_push is
\* never called, the durable push state stays as it was, and a call that
\* passes the content gate is dispatched whatever the time of day.
C13_WindowDisabledBypassed ==
    \A p \in Procs :
        (~cfg.PW_ENABLED /\ pc[p] # "idle") =>
            /\ obs[p].consulted = {}
            /\ obs[p].records = <<>>
            /\ pushState = obs[p].push_at_start
            /\ obs[p].path \notin {"outside_window", "already_pushed"}
            /\ (Called(p) /\ Gated /\ obs[p].calls[1].valid) =>
                  /\ obs[p].path \in {"go", "no_channel", "returned_true"}
                  /\ Returned(p) => Dispatched(p)

C13_Witness ==
    \E p \in Procs :
        /\ ~cfg.PW_ENABLED
        /\ cfg.ONCE_PER_DAY
        /\ pc[p] = "done"
        /\ Called(p)
        /\ ~obs[p].calls[1].in_range
        /\ Succeeded(p)
        /\ pushState = NoPush

\* C14: with PUSH_WINDOW.ENABLED true, a call that passes the content gate
\* at a time outside the configured range is a no-op: no dispatch_all, no
\* record_push, no has_pushed_today lookup, no error, and the cycle goes on,
\* whether or not ONCE_PER_DAY is set or a push was recorded today.
C14_OutsideWindowNoOp ==
    \A p \in Procs :
        (Called(p) /\ Gated /\ cfg.PW_ENABLED
            /\ obs[p].calls[1].valid /\ ~obs[p].calls[1].in_range) =>
            /\ obs[p].path = "outside_window"
            /\ Returned(p)
            /\ ~Dispatched(p)
            /\ obs[p].records = <<>>
            /\ pushState = obs[p].push_at_start
            /\ "has_pushed_today" \notin obs[p].consulted
            /\ "skip_outside_window" \in obs[p].log
            /\ obs[p].exit_status = 0

C14_Witness ==
    \E p \in Procs :
        /\ pc[p] = "done"
        /\ obs[p].path = "outside_window"
        /\ ~cfg.ONCE_PER_DAY
        /\ ~obs[p].calls[1].in_range

\* C15: in current mode, when the history saved by the cycle cannot be read
\* back, the cycle raises and aborts: no notification call, no dispatch_all,
\* no push recorded, no summary generated, and the error leaves run().
C15_ReadbackFailureAborts ==
    \A p \in Procs :
        (pc[p] \notin {"idle", "run"} /\ ~obs[p].readback_ok) =>
            /\ cfg.REPORT_MODE = "current"
            /\ pc[p] = "failed"
            /\ obs[p].path = "raised"
            /\ ~Called(p)
            /\ ~Dispatched(p)
            /\ obs[p].records = <<>>
            /\ ~obs[p].summary_loaded
            /\ pushState = obs[p].push_at_start
            /\ "run_error" \in obs[p].log
            /\ obs[p].exit_status = 1

C15_Witness ==
    \E p \in Procs :
        /\ cfg.REPORT_MODE = "current"
        /\ Gated
        /\ pc[p] = "failed"
        /\ ~obs[p].readback_ok

\* C16: in any mode, a notification call whose content gate is false makes no
\* dispatch, consults and mutates no push state, raises nothing, and the
\* cycle goes on to its end.
C16_GateFalseNoOp ==
    \A p \in Procs :
        (Called(p) /\ ~obs[p].calls[1].valid) =>
            /\ obs[p].path \in {"gate_false", "not_configured", "disabled"}
            /\ Gated => obs[p].path = "gate_false"
            /\ Returned(p)
            /\ ~Dispatched(p)
            /\ obs[p].consulted = {}
            /\ obs[p].records = <<>>
            /\ pushState = obs[p].push_at_start
            /\ obs[p].exit_status = 0

C16_Witness ==
    \E p \in Procs :
        /\ pc[p] = "done"
        /\ Gated
        /\ cfg.REPORT_MODE = "current"
        /\ OncePerDay
        /\ obs[p].path = "gate_false"
        /\ obs[p].calls[1].in_range
        /\ ~HasPushedToday(pushState, today)

\* C17: when dispatch_all returns an empty outcome map the call prints the
\* no-channel message, does not call record_push and returns False: no
\* notification is reported as sent.
C17_EmptyOutcomeNoChannel ==
    \A p \in Procs :
        (Returned(p) /\ Dispatched(p) /\ obs[p].results = <<>>) =>
            /\ obs[p].path = "no_channel"
            /\ ~ReturnValue(obs[p].path)
            /\ "skip_no_channel_configured" \in obs[p].log
            /\ obs[p].records = <<>>
            /\ pushState = obs[p].push_at_start

C17_Witness ==
    \E p \in Procs :
        /\ pc[p] = "done"
        /\ OncePerDay
        /\ Dispatched(p)
        /\ obs[p].results = <<>>
        /\ obs[p].path = "no_channel"

\* C18: the failed_ids returned by the crawl are the failed_ids of the report
\* data of every notification the cycle dispatches, in every mode.
C18_FailedIdsSurfaced ==
    \A p \in Procs :
        \A i \in DOMAIN obs[p].dispatches :
            obs[p].dispatches[i].failed_ids = obs[p].failed_ids

ThrottleMessages == {"skip_outside_window", "skip_already_pushed_today"}
GateMessages ==
    {"skip_realtime_no_new", "skip_realtime_new_unmatched",
     "skip_realtime_no_match", "skip_summary_no_valid_content"}

\* C19: a notification call that ends in a throttle skip, in a false content
\* gate, or with every channel failed can be told apart by what it emits: a
\* throttle skip prints a push window message and returns False, a false gate
\* prints a skip message and returns False, and a dispatch in which every
\* channel failed prints neither and returns True.
C19_EndingsDistinguishable ==
    \A p \in Procs :
        (Returned(p) /\ Called(p)) =>
            /\ obs[p].path \in {"outside_window", "already_pushed"} =>
                  /\ obs[p].log \cap ThrottleMessages # {}
                  /\ obs[p].log \cap GateMessages = {}
                  /\ ~ReturnValue(obs[p].path)
            /\ obs[p].path = "gate_false" =>
                  /\ obs[p].log \cap GateMessages # {}
                  /\ obs[p].log \cap ThrottleMessages = {}
                  /\ ~ReturnValue(obs[p].path)
            /\ (Dispatched(p) /\ obs[p].results # <<>>
                   /\ ~AnySuccess(obs[p].results)) =>
                  /\ obs[p].log \cap (ThrottleMessages \cup GateMessages) = {}
                  /\ ReturnValue(obs[p].path)

C19_Witness ==
    \E p \in Procs :
        /\ pc[p] = "done"
        /\ OncePerDay
        /\ Dispatched(p)
        /\ DOMAIN obs[p].results = Channels
        /\ ~AnySuccess(obs[p].results)
        /\ HasPushedToday(obs[p].push_at_start, today) = FALSE

\* C20: when loading the configuration fails in NewsAnalyzer(), no cycle is
\* attempted, an abort message is printed and the process ends with a
\* non-zero exit status.
C20_ConfigFailureExitsNonZero ==
    \A p \in Procs :
        obs[p].config_error # "none" =>
            /\ pc[p] = "exited"
            /\ obs[p].pipeline_mode = "none"
            /\ ~Called(p)
            /\ obs[p].log # {}
            /\ obs[p].exit_status # 0

\* the minimum required credential fields of each channel
RequiredFields ==
    [feishu |-> {"FEISHU_WEBHOOK_URL"},
     dingtalk |-> {"DINGTALK_WEBHOOK_URL"},
     wework |-> {"WEWORK_WEBHOOK_URL"},
     telegram |-> {"TELEGRAM_BOT_TOKEN", "TELEGRAM_CHAT_ID"},
     email |-> {"EMAIL_FROM", "EMAIL_PASSWORD", "EMAIL_TO"},
     ntfy |-> {"NTFY_SERVER_URL", "NTFY_TOPIC"},
     bark |-> {"BARK_URL"},
     slack |-> {"SLACK_WEBHOOK_URL"}]

ChannelComplete(c, ch) == \A f \in RequiredFields[ch] : c[f] # ""

\* C21: _has_notification_configured is true exactly when some channel has
\* all of its required credential fields non-empty; a channel with only part
\* of them does not count, and when it is false the notification call does
\* not go on to dispatch.
C21_ConfiguredIffChannelComplete ==
    fn_call.name = "has_notification_configured" =>
        /\ fn_ret.value <=>
              \E ch \in DOMAIN RequiredFields : ChannelComplete(fn_call.args, ch)
        /\ ~fn_ret.value => fn_ret.decision = "not_configured"

C21_Witness ==
    /\ fn_call.name = "has_notification_configured"
    /\ fn_call.args["TELEGRAM_BOT_TOKEN"] # ""
    /\ fn_call.args["EMAIL_FROM"] # ""
    /\ fn_call.args["EMAIL_TO"] # ""
    /\ fn_call.args["NTFY_TOPIC"] # ""
    /\ ~fn_ret.value
    /\ fn_ret.decision = "not_configured"

\* C22: dispatch_all attempts every configured channel independently: a
\* channel whose send raises or fails is false in the outcome, every other
\* configured channel has its own result, the outcome has exactly one entry
\* per configured channel, and the call does not raise.
C22_ChannelsIsolated ==
    fn_call.name = "dispatch_all" =>
        /\ ~fn_ret.raised
        /\ DOMAIN fn_ret.outcome = fn_call.args.configured
        /\ \A ch \in fn_call.args.configured :
              fn_ret.outcome[ch] <=> fn_call.args.sends[ch] = "ok"

C22_Witness ==
    /\ fn_call.name = "dispatch_all"
    /\ fn_call.args.configured = DispatchChannels
    /\ fn_call.args.sends["feishu"] = "raises"
    /\ fn_call.args.sends["telegram"] = "ok"
    /\ fn_call.args.sends["email"] = "ok"
    /\ Cardinality({ch \in DOMAIN fn_ret.outcome : ~fn_ret.outcome[ch]}) = 1
    /\ Cardinality(DOMAIN fn_ret.outcome) = 3

\* the times of day a window contains
WindowTimes(start, end) ==
    IF start <= end
    THEN {t \in TimeOfDay : start <= t /\ t <= end}
    ELSE {t \in TimeOfDay : t >= start} \cup {t \in TimeOfDay : t <= end}

\* C23: is_in_time_range(start, end) at time now is true exactly when now
\* lies in start..end for a window with start <= end, and exactly when
\* now >= start or now <= end for a window that wraps midnight; both
\* boundaries are inclusive.
C23_TimeRangeInclusive ==
    fn_call.name = "is_in_time_range" =>
        /\ fn_ret.value <=>
              fn_call.args.now \in WindowTimes(fn_call.args.start, fn_call.args.end)
        /\ fn_call.args.now \in {fn_call.args.start, fn_call.args.end} =>
              fn_ret.value

C23_Witness ==
    /\ fn_call.name = "is_in_time_range"
    /\ fn_call.args.start > fn_call.args.end
    /\ fn_call.args.now > fn_call.args.start
    /\ fn_ret.value

\* C24: once record_push has run at calendar date D, has_pushed_today stays
\* true for as long as the date is D (the state is durable, so also for the
\* push manager of a later invocation), and it is false on the first lookup
\* after the date has moved on, without any reset.
C24_PushedTodayUntilRollover ==
    [][/\ \A p \in Procs :
             Len(obs'[p].records) > Len(obs[p].records) =>
                 HasPushedToday(pushState', today')
       /\ (HasPushedToday(pushState, today) /\ today' = today) =>
             HasPushedToday(pushState', today')
       /\ today' # today => ~HasPushedToday(pushState', today')]_vars

C24_Witness ==
    \E p \in Procs :
        /\ today = 1
        /\ OncePerDay
        /\ obs[p].push_at_start.date = 0
        /\ obs[p].records # <<>>
        /\ pushState.date = 1

\* C25: on the realtime path current mode classifies the day's history as
\* re-read from the store and incremental mode classifies the results of this
\* cycle; the stats given to the realtime gate and dispatch come from that
\* same data set.
C25_RealtimeDataSet ==
    \A p \in Procs :
        (pc[p] \in {"dispatch", "dispatched", "summary", "done"}) =>
            /\ cfg.REPORT_MODE = "current" =>
                  /\ obs[p].realtime_data = "history"
                  /\ obs[p].readback_ok
                  /\ \A i \in DOMAIN obs[p].calls :
                        IsRealtimeType(obs[p].calls[i].report_type) =>
                            obs[p].calls[i].data = "history"
            /\ cfg.REPORT_MODE = "incremental" =>
                  /\ obs[p].realtime_data = "cycle"
                  /\ \A i \in DOMAIN obs[p].calls :
                        IsRealtimeType(obs[p].calls[i].report_type) =>
                            obs[p].calls[i].data = "cycle"

C25_Witness ==
    \E p \in Procs :
        /\ cfg.REPORT_MODE = "current"
        /\ pc[p] = "done"
        /\ Succeeded(p)
        /\ obs[p].dispatches[1].report_type = "realtime_current"
        /\ obs[p].calls[1].data = "history"

\* C26: with ENABLE_CRAWLER false run() performs no crawl, runs no analysis
\* or mode strategy and makes no notification call or dispatch.
C26_CrawlerDisabledNoCycle ==
    \A p \in Procs :
        ~cfg.ENABLE_CRAWLER =>
            /\ ~obs[p].crawled
            /\ obs[p].pipeline_mode = "none"
            /\ ~Called(p)
            /\ ~Dispatched(p)

\* C27: in incremental and daily mode a history that cannot be loaded is not
\* fatal: the cycle never fails, and a summary step that could not load
\* makes no notification call, no dispatch and no record, and the cycle
\* ends normally.
C27_LoadFailureNotFatal ==
    \A p \in Procs :
        cfg.REPORT_MODE \in {"incremental", "daily"} =>
            /\ pc[p] # "failed"
            /\ obs[p].path # "raised"
            /\ (pc[p] = "done" /\ ~obs[p].summary_loaded) =>
                  /\ obs[p].exit_status = 0
                  /\ "history_not_loaded" \in obs[p].log
                  /\ \A i \in DOMAIN obs[p].calls :
                        IsRealtimeType(obs[p].calls[i].report_type)
                  /\ \A i \in DOMAIN obs[p].dispatches :
                        IsRealtimeType(obs[p].dispatches[i].report_type)
                  /\ \A i \in DOMAIN obs[p].records :
                        IsRealtimeType(obs[p].records[i].report_type)

C27_Witness ==
    \E p \in Procs :
        /\ cfg.REPORT_MODE = "daily"
        /\ Gated
        /\ pc[p] = "done"
        /\ ~obs[p].summary_loaded
        /\ ~Called(p)
        /\ pushState = obs[p].push_at_start

\* C28: once a push has passed the gate and the throttle, a failure of the
\* optional enrichments never prevents or aborts the dispatch: nothing is
\* raised, dispatch_all is called exactly once, and the report data has
\* extended_data None when the extended data could not be loaded and
\* ai_analysis None when the AI analysis gave no result.
C28_EnrichmentFailureStillDispatches ==
    fn_call.name = "notify_tail" =>
        /\ ~fn_ret.raised
        /\ fn_ret.dispatch_calls = 1
        /\ fn_call.args.ext # "data" => fn_ret.extended_data = "None"
        /\ fn_call.args.ai # "result" => fn_ret.ai_analysis = "None"

C28_Witness ==
    /\ fn_call.name = "notify_tail"
    /\ fn_call.args.ext = "raises"
    /\ fn_call.args.ai = "exception"
    /\ fn_ret.dispatch_calls = 1
    /\ fn_ret.extended_data = "None"
    /\ fn_ret.ai_analysis = "None"

\* C29: for both fetchers fetch_ticker_24h(symbols) never raises and returns
\* a map whose key set is exactly the set of requested symbols.
C29_TickerKeysAreSymbols ==
    fn_call.name \in {"binance_fetch_ticker_24h", "coingecko_fetch_ticker_24h"} =>
        /\ ~fn_ret.raised
        /\ DOMAIN fn_ret.value = Range(fn_call.args.symbols)

\* the instances whose feed is fetched and whose first `limit` entries are
\* all processed, at least one entry being there
GoodInstances(in) ==
    {i \in DOMAIN in.feeds :
        /\ in.installed
        /\ in.feeds[i].status = "ok"
        /\ in.feeds[i].entries # <<>>
        /\ \A k \in 1..Min(in.limit, Len(in.feeds[i].entries)) :
              in.feeds[i].entries[k] = "ok"}

\* C30: fetch_user_tweets returns at most `limit` tweets, all from the first
\* instance whose feed was fetched and fully processed; no later instance is
\* contacted, no tweet of a failed instance is returned, and the result is
\* empty exactly when every instance failed.
C30_TweetsFromFirstGoodInstance ==
    fn_call.name = "fetch_user_tweets" =>
        LET in == fn_call.args
            good == GoodInstances(in)
            tweets == fn_ret.tweets
        IN  /\ Len(tweets) <= in.limit
            /\ \A a \in DOMAIN tweets, b \in DOMAIN tweets :
                  tweets[a][1] = tweets[b][1]
            /\ \A a \in DOMAIN tweets : tweets[a][1] \in good
            /\ tweets = <<>> <=> good = {}
            /\ good # {} =>
                  LET first == CHOOSE i \in good : \A j \in good : i <= j
                  IN  /\ \A a \in DOMAIN tweets : tweets[a][1] = first
                      /\ Range(fn_ret.contacted) = 1..first

====
